---- MODULE Spec2Model ----
(***************************************************************************)
(* Model of image_diffit.py: the hybrid residual block (DiffiTResBlock),   *)
(* the block stack (DiffiTSequential), the resolution transitions, the     *)
(* U-Net (ImageDiffiT) and its classifier-free-guidance pass.              *)
(*                                                                         *)
(* Tensors are modelled by their shapes (sequences of naturals); the       *)
(* guidance arithmetic of forward_with_cfg is modelled on values.  A call  *)
(* returns Ok(value) or Raise(exception name).  Constructor arguments are  *)
(* tagged Python values, because all_equals passes modules where integers  *)
(* are expected.                                                           *)
(***************************************************************************)
EXTENDS Integers, Sequences, FiniteSets, TLC

VARIABLES
    ucfg, upc, umodel, ucall,      \* a U-Net: configuration, position, constructed model, call
    bcfg, bpc, block, stack, bout, \* a block and a stack: configuration, position, objects, call
    tin, tpc, tdown, tup, tsum,    \* a resolution transition: input, position, results
    gin, gpc, gout,                \* a guidance pass: U-Net output and weight, position, result
    pin, ppc, pout                 \* an unpatchify call: block and token tensor, position, result

unetVars == <<ucfg, upc, umodel, ucall>>

blockVars == <<bcfg, bpc, block, stack, bout>>

trVars == <<tin, tpc, tdown, tup, tsum>>

cfgVars == <<gin, gpc, gout>>

unpVars == <<pin, ppc, pout>>

vars == <<ucfg, upc, umodel, ucall, bcfg, bpc, block, stack, bout,
          tin, tpc, tdown, tup, tsum, gin, gpc, gout, pin, ppc, pout>>

----------------------------------------------------------------------------
(* Bounds of the model                                                      *)

MaxImg == 6
MaxPatch == 2
MaxHidden == 3
MaxHeads == 2
MaxChannels == 3
MaxGroups == 2
MaxBatch == 2
MaxBlocks == 2
MaxStack == 7
MaxVal == 2
MaxRest == 1
MaxW == 2
NumClasses == 2
MaxTokens == 9

----------------------------------------------------------------------------
(* Python values and call results                                           *)

PyInt(n) == [t |-> "int", v |-> n]

PyModule == [t |-> "module", v |-> 0]

IsInt(a) == a.t = "int"

Ok(v) == [err |-> "none", val |-> v]

Raise(e) == [err |-> e, val |-> <<>>]

IsOk(r) == r.err = "none"

\* the next statement runs on the value of a call that returned; an exception propagates
Then(r, F(_)) == IF IsOk(r) THEN F(r.val) ELSE r

NoResult == [err |-> "not called", val |-> <<>>]

Min(a, b) == IF a <= b THEN a ELSE b

Max(a, b) == IF a >= b THEN a ELSE b

\* int(n ** 0.5): the floor of the square root
Isqrt(n) == CHOOSE h \in 0..n : h * h <= n /\ (h + 1) * (h + 1) > n

----------------------------------------------------------------------------
(* torch layers, on shapes                                                  *)

\* nn.Conv2d(c_in, c_out, k, s, p) applied to <<B, C, H, W>>
Conv2d(c_in, c_out, k, s, p, x) ==
    IF x[2] # c_in \/ x[3] + 2 * p < k \/ x[4] + 2 * p < k
    THEN Raise("RuntimeError")
    ELSE Ok(<<x[1], c_out, (x[3] + 2 * p - k) \div s + 1, (x[4] + 2 * p - k) \div s + 1>>)

\* nn.ConvTranspose2d(c_in, c_out, k, s, p) applied to <<B, C, H, W>>
ConvTranspose2d(c_in, c_out, k, s, p, x) ==
    IF x[2] # c_in
    THEN Raise("RuntimeError")
    ELSE Ok(<<x[1], c_out, (x[3] - 1) * s - 2 * p + k, (x[4] - 1) * s - 2 * p + k>>)

\* nn.GroupNorm(num_groups, channels) applied to <<B, C, H, W>>
GroupNorm(num_groups, channels, x) ==
    IF x[2] # channels THEN Raise("RuntimeError") ELSE Ok(x)

\* a + b on tensors of equal rank: torch broadcasting, dimension by dimension
TensorAdd(a, b) ==
    IF Len(a) # Len(b) THEN Raise("RuntimeError")
    ELSE IF \E i \in 1..Len(a) : a[i] # b[i] /\ a[i] # 1 /\ b[i] # 1
         THEN Raise("RuntimeError")
         ELSE Ok([i \in 1..Len(a) |-> Max(a[i], b[i])])

----------------------------------------------------------------------------
(* Collaborators of DiffiTResBlock                                          *)

\* timm PatchEmbed(img_size, patch_size, channels, hidden_size, bias=True)
PatchEmbed_init(img_size, patch_size, channels, hidden_size) ==
    IF ~(IsInt(img_size) /\ IsInt(patch_size))
    THEN Raise("TypeError")
    ELSE Ok([img_size |-> img_size.v, patch_size |-> patch_size.v,
             num_patches |-> (img_size.v \div patch_size.v) * (img_size.v \div patch_size.v)])

\* x_embedder(x): size check, then a patch_size-strided convolution, flattened
PatchEmbed_forward(blk, x) ==
    IF x[3] # blk.img_size \/ x[4] # blk.img_size
    THEN Raise("AssertionError")
    ELSE Then(Conv2d(blk.channels, blk.hidden_size, blk.patch_size, blk.patch_size, 0, x),
              LAMBDA proj : Ok(<<proj[1], proj[3] * proj[4], proj[2]>>))

\* get_2d_sincos_pos_embed(hidden_size, grid_side): array (grid_side^2, hidden_size)
get_2d_sincos_pos_embed(hidden_size, grid_side) == <<grid_side * grid_side, hidden_size>>

\* DiffTBlock(hidden_size, num_heads)(tokens, c): tokens of the same shape
DiffTBlock_forward(tokens, c) == Ok(tokens)

\* FinalLayer(hidden_size, patch_size, channels)(tokens): (B, T, p*p*channels)
FinalLayer_forward(blk, tokens) ==
    Ok(<<tokens[1], tokens[2], blk.patch_size * blk.patch_size * blk.channels>>)

----------------------------------------------------------------------------
(* DiffiTResBlock                                                           *)

DefaultNumHeads == 16
DefaultPatchSize == 2
DefaultHiddenSize == 1152
DefaultChannels == 128
DefaultNumGroups == 8

\* DiffiTResBlock.__init__ with its six parameters bound
DiffiTResBlock_init(img_size, num_heads, patch_size, hidden_size, channels, num_groups) ==
    IF ~(IsInt(hidden_size) /\ IsInt(num_heads)) THEN Raise("TypeError")
    ELSE IF hidden_size.v % num_heads.v # 0 THEN Raise("AssertionError")
    ELSE IF ~(IsInt(channels) /\ IsInt(num_groups)) THEN Raise("TypeError")
    ELSE IF channels.v % num_groups.v # 0 THEN Raise("AssertionError")
    ELSE LET pe == PatchEmbed_init(img_size, patch_size, channels, hidden_size)
         IN  IF ~IsOk(pe) THEN pe
             ELSE LET pos_embed == <<1, pe.val.num_patches, hidden_size.v>>
                      table == get_2d_sincos_pos_embed(hidden_size.v, Isqrt(pe.val.num_patches))
                  IN  IF <<1>> \o table # pos_embed THEN Raise("RuntimeError")
                      ELSE Ok([cls |-> "DiffiTResBlock",
                               img_size |-> pe.val.img_size,
                               num_heads |-> num_heads.v,
                               patch_size |-> pe.val.patch_size,
                               hidden_size |-> hidden_size.v,
                               channels |-> channels.v,
                               num_groups |-> num_groups.v,
                               num_patches |-> pe.val.num_patches])

\* DiffiTResBlock(*args): Python binds the positional arguments to the parameters
DiffiTResBlock_new(args) ==
    IF Len(args) = 0 \/ Len(args) > 6 THEN Raise("TypeError")
    ELSE DiffiTResBlock_init(
            args[1],
            IF Len(args) >= 2 THEN args[2] ELSE PyInt(DefaultNumHeads),
            IF Len(args) >= 3 THEN args[3] ELSE PyInt(DefaultPatchSize),
            IF Len(args) >= 4 THEN args[4] ELSE PyInt(DefaultHiddenSize),
            IF Len(args) >= 5 THEN args[5] ELSE PyInt(DefaultChannels),
            IF Len(args) >= 6 THEN args[6] ELSE PyInt(DefaultNumGroups))

\* DiffiTResBlock(**kwargs) with the six keys of a block configuration
DiffiTResBlock_kw(kw) ==
    DiffiTResBlock_init(PyInt(kw.img_size), PyInt(kw.num_heads), PyInt(kw.patch_size),
                        PyInt(kw.hidden_size), PyInt(kw.channels), PyInt(kw.num_groups))

\* unpatchify returning the layout its docstring names, (batch, H, W, C)
unpatchify_channels_last(blk, x) ==
    LET c == blk.channels
        p == blk.patch_size
        h == Isqrt(x[2])
    IN  IF h * h # x[2] THEN Raise("AssertionError")
        ELSE IF x[1] * x[2] * x[3] # x[1] * h * h * p * p * c THEN Raise("RuntimeError")
        ELSE Ok(<<x[1], h * p, h * p, c>>)

\* unpatchify on <<N, T, D>>
unpatchify(blk, x) ==
    LET c == blk.channels
        p == blk.patch_size
        h == Isqrt(x[2])
    IN  IF h * h # x[2] THEN Raise("AssertionError")
        ELSE IF x[1] * x[2] * x[3] # x[1] * h * h * p * p * c THEN Raise("RuntimeError")
        ELSE Ok(<<x[1], c, h * p, h * p>>)

\* DiffiTResBlock.forward(x, c)
DiffiTResBlock_forward(blk, x, c) ==
    Then(GroupNorm(blk.num_groups, blk.channels, x), LAMBDA normed :
    Then(Conv2d(blk.channels, blk.channels, 3, 1, 1, normed), LAMBDA xc :
    Then(PatchEmbed_forward(blk, xc), LAMBDA emb :
    Then(TensorAdd(emb, <<1, blk.num_patches, blk.hidden_size>>), LAMBDA x_patched :
    Then(DiffTBlock_forward(x_patched, c), LAMBDA mixed :
    Then(FinalLayer_forward(blk, mixed), LAMBDA fin :
    Then(unpatchify(blk, fin), LAMBDA imgs :
    TensorAdd(imgs, xc))))))))

----------------------------------------------------------------------------
(* unpatchify on values.  A tensor is [shape, data]: data holds the elements *)
(* in row-major order, element (i1, ..., ik), counted from 0, at position   *)
(* 1 + Offset.                                                              *)

RECURSIVE Prod(_)
\* the number of elements of a shape
Prod(shape) == IF shape = <<>> THEN 1 ELSE Head(shape) * Prod(Tail(shape))

\* the row-major stride of axis i
Stride(shape, i) == Prod(SubSeq(shape, i + 1, Len(shape)))

\* coordinate i of the element at offset f
Coord(f, shape, i) == (f \div Stride(shape, i)) % shape[i]

RECURSIVE OffsetFrom(_, _, _)
\* the offset of the element at index idx, summed from axis i on
OffsetFrom(idx, shape, i) ==
    IF i > Len(shape) THEN 0
    ELSE idx[i] * Stride(shape, i) + OffsetFrom(idx, shape, i + 1)

Offset(idx, shape) == OffsetFrom(idx, shape, 1)

\* x.reshape(shape): the same elements in the same order
reshape(x, shape) ==
    IF Prod(shape) # Len(x.data) THEN Raise("RuntimeError")
    ELSE Ok([shape |-> shape, data |-> x.data])

\* a transposition of axes: axis i of the result is axis perm[i] of x
Permute(x, perm) ==
    LET oshape == [i \in 1..Len(perm) |-> x.shape[perm[i]]]
    IN  [shape |-> oshape,
         data  |-> [f \in 1..Len(x.data) |->
                      x.data[1 + Offset([a \in 1..Len(perm) |->
                                            Coord(f - 1, oshape,
                                                  CHOOSE i \in 1..Len(perm) : perm[i] = a)],
                                        x.shape)]]]

\* torch.einsum('nhwpqc->nchwpq', x): channels moved to the front, the two
\* grid axes and the two sub-patch axes left in place
einsum_nchwpq(x) == Permute(x, <<1, 6, 2, 3, 4, 5>>)

\* torch.einsum('nhwpqc->nchpwq', x)
einsum(x) == Permute(x, <<1, 6, 2, 4, 3, 5>>)

\* DiffiTResBlock.unpatchify on a tensor with its elements
unpatchify_tensor(blk, x) ==
    LET c == blk.channels
        p == blk.patch_size
        h == Isqrt(x.shape[2])
    IN  IF h * h # x.shape[2] THEN Raise("AssertionError")
        ELSE Then(reshape(x, <<x.shape[1], h, h, p, p, c>>), LAMBDA r :
             reshape(einsum(r), <<x.shape[1], c, h * p, h * p>>))

----------------------------------------------------------------------------
(* DiffiTSequential                                                         *)

\* DiffiTSequential(*blocks)
DiffiTSequential_init(blocks) == Ok([cls |-> "DiffiTSequential", blocks |-> blocks])

\* DiffiTSequential.all_equals(n, **kwargs)
all_equals(n, kw) ==
    LET inner == DiffiTResBlock_kw(kw)
    IN  IF n > 0 /\ ~IsOk(inner) THEN inner
        ELSE DiffiTResBlock_new([i \in 1..n |-> PyModule])

RECURSIVE ApplyBlocks(_, _, _, _)
\* for block in self.blocks: x = block(x, c), from block i on
ApplyBlocks(blocks, i, x, c) ==
    IF i > Len(blocks) THEN Ok(x)
    ELSE Then(DiffiTResBlock_forward(blocks[i], x, c),
              LAMBDA out : ApplyBlocks(blocks, i + 1, out, c))

\* DiffiTSequential.forward(x, c)
DiffiTSequential_forward(seq, x, c) == ApplyBlocks(seq.blocks, 1, x, c)

----------------------------------------------------------------------------
(* Tokenizer, Head and the resolution transitions                           *)

\* Tokenizer(in_channels, out_channels)(x)
Tokenizer_forward(in_channels, out_channels, x) == Conv2d(in_channels, out_channels, 3, 1, 1, x)

HeadInChannels == 128
HeadOutChannels == 3
HeadNumGroups == 8

\* Head(in_channels, out_channels, num_groups)
Head_init(in_channels, out_channels, num_groups) ==
    IF in_channels % num_groups # 0 THEN Raise("AssertionError")
    ELSE Ok([cls |-> "Head", in_channels |-> in_channels,
             out_channels |-> out_channels, num_groups |-> num_groups])

\* Head.forward(x)
Head_forward(head, x) ==
    Then(GroupNorm(head.num_groups, head.in_channels, x),
         LAMBDA normed : Conv2d(head.in_channels, head.out_channels, 3, 1, 1, normed))

\* a downsampling convolution built without its padding
Downsample_unpadded(hidden_channels, x) == Conv2d(hidden_channels, hidden_channels, 3, 2, 0, x)

\* downsample_k = nn.Conv2d(hidden_channels, hidden_channels, kernel_size=3, stride=2, padding=1)
Downsample(hidden_channels, x) == Conv2d(hidden_channels, hidden_channels, 3, 2, 1, x)

\* upsample_k = nn.ConvTranspose2d(hidden_channels, hidden_channels, kernel_size=4, stride=2, padding=1)
Upsample(hidden_channels, x) == ConvTranspose2d(hidden_channels, hidden_channels, 4, 2, 1, x)

\* x_skip + upsample_k(x_low)
SkipAdd(hidden_channels, x_skip, x_low) ==
    Then(Upsample(hidden_channels, x_low), LAMBDA up : TensorAdd(x_skip, up))

----------------------------------------------------------------------------
(* ImageDiffiT: construction                                                *)

\* the attribute names __init__ assigns or forward reads
Slots == {"resBlock1", "resBlock2", "resBlock3", "resBlock4",
          "resBlock3up", "resBlock2up", "resBlock1Up",
          "downsample_1", "downsample_2", "downsample_3",
          "upsample_1", "upsample_2", "upsample_3", "head"}

Unset == [cls |-> "unset"]

\* get_block_params(block_groups, block_img_size)
get_block_params(cfg, block_groups, block_img_size) ==
    [num_heads |-> cfg.num_heads, patch_size |-> cfg.patch_size, img_size |-> block_img_size,
     hidden_size |-> cfg.hidden_size, channels |-> cfg.hidden_channels, num_groups |-> block_groups]

StackStmt(slot, n, groups, size) == [kind |-> "stack", slot |-> slot, n |-> n, groups |-> groups, size |-> size]

LayerStmt(kind, slot) == [kind |-> kind, slot |-> slot, n |-> 0, groups |-> 0, size |-> 0]

\* the assignments of __init__, lines 234 to 247, in order
CtorStmts(cfg) ==
    << StackStmt("resBlock1", cfg.l1, 1, cfg.img_size),
       LayerStmt("down", "downsample_1"),
       StackStmt("resBlock2", cfg.l2, cfg.num_groups, cfg.img_size \div 2),
       LayerStmt("down", "downsample_2"),
       StackStmt("resBlock2", cfg.l3, cfg.num_groups, cfg.img_size \div 4),
       LayerStmt("down", "downsample_3"),
       StackStmt("resBlock2", cfg.l4, cfg.num_groups, cfg.img_size \div 8),
       LayerStmt("up", "upsample_1"),
       StackStmt("resBlock3up", cfg.l3, cfg.num_groups, cfg.img_size \div 4),
       LayerStmt("up", "upsample_2"),
       StackStmt("resBlock2up", cfg.l2, cfg.num_groups, cfg.img_size \div 2),
       LayerStmt("up", "upsample_3"),
       StackStmt("resBlock1Up", cfg.l1, 1, cfg.img_size),
       LayerStmt("head", "head") >>

\* the right-hand side of one assignment of __init__
CtorValue(cfg, st) ==
    CASE st.kind = "stack" -> all_equals(st.n, get_block_params(cfg, st.groups, st.size))
      [] st.kind = "down"  -> Ok([cls |-> "Conv2d", channels |-> cfg.hidden_channels])
      [] st.kind = "up"    -> Ok([cls |-> "ConvTranspose2d", channels |-> cfg.hidden_channels])
      [] st.kind = "head"  -> Head_init(HeadInChannels, HeadOutChannels, HeadNumGroups)

RECURSIVE CtorFrom(_, _, _)
\* __init__ from its i-th assignment on; an exception ends the construction
CtorFrom(cfg, i, slots) ==
    IF i > Len(CtorStmts(cfg))
    THEN Ok([cls |-> "ImageDiffiT", num_classes |-> cfg.num_classes, channels |-> cfg.channels,
             hidden_channels |-> cfg.hidden_channels, hidden_size |-> cfg.hidden_size,
             slots |-> slots])
    ELSE LET st == CtorStmts(cfg)[i]
             v == CtorValue(cfg, st)
         IN  IF ~IsOk(v) THEN v
             ELSE CtorFrom(cfg, i + 1, [slots EXCEPT ![st.slot] = v.val])

\* ImageDiffiT.__init__
ImageDiffiT_init(cfg) ==
    IF cfg.hidden_size % cfg.num_heads # 0 THEN Raise("AssertionError")
    ELSE IF cfg.hidden_channels % cfg.num_groups # 0 THEN Raise("AssertionError")
    ELSE CtorFrom(cfg, 1, [s \in Slots |-> Unset])

----------------------------------------------------------------------------
(* ImageDiffiT: forward                                                     *)

\* TimestepEmbedder(hidden_size)(t): (batch, hidden_size)
TimestepEmbedder_forward(hidden_size, t) == Ok(<<t[1], hidden_size>>)

\* LabelEmbedder(num_classes, hidden_size, p)(y): (batch, hidden_size); labels 0..num_classes
LabelEmbedder_forward(num_classes, hidden_size, y) ==
    IF \E i \in 1..Len(y) : y[i] < 0 \/ y[i] > num_classes
    THEN Raise("ValueDomainError")
    ELSE Ok(<<Len(y), hidden_size>>)

FwdStmt(kind, slot, src, dst) == [kind |-> kind, slot |-> slot, src |-> src, dst |-> dst]

\* the statements of forward, lines 284 to 308, in order
FwdStmts ==
    << FwdStmt("stack", "resBlock1", "x1", "x1"),
       FwdStmt("down", "downsample_1", "x1", "x2"),
       FwdStmt("stack", "resBlock2", "x2", "x2"),
       FwdStmt("down", "downsample_2", "x2", "x3"),
       FwdStmt("stack", "resBlock3", "x3", "x3"),
       FwdStmt("down", "downsample_3", "x3", "x4"),
       FwdStmt("stack", "resBlock4", "x4", "x4"),
       FwdStmt("skip", "upsample_1", "x4", "x3"),
       FwdStmt("stack", "resBlock3up", "x3", "x3"),
       FwdStmt("skip", "upsample_2", "x3", "x2"),
       FwdStmt("stack", "resBlock2", "x2", "x2"),
       FwdStmt("skip", "upsample_3", "x2", "x1"),
       FwdStmt("stack", "resBlock1Up", "x1", "x1") >>

\* self.<slot>(...): the attribute must exist; a stack takes (x, c), a layer takes x
CallSlot(self, st, env, c) ==
    LET obj == self.slots[st.slot]
    IN  CASE obj.cls = "unset" -> Raise("AttributeError")
          [] obj.cls = "DiffiTSequential" -> DiffiTSequential_forward(obj, env[st.src], c)
          [] obj.cls = "DiffiTResBlock" -> DiffiTResBlock_forward(obj, env[st.src], c)
          [] obj.cls = "Conv2d" -> Downsample(obj.channels, env[st.src])
          [] obj.cls = "ConvTranspose2d" -> SkipAdd(obj.channels, env[st.dst], env[st.src])
          [] OTHER -> Raise("TypeError")

\* what a forward call leaves behind: its result and the stages it ran
FwdResult(err, val, trace) == [err |-> err, val |-> val, trace |-> trace]

\* one stage of the trace: the attribute called, its input, the tensor it is added to
\* (a skip connection) and the conditioning vector it is given (a stack)
Stage(kind, slot, x, skip, c) == [kind |-> kind, slot |-> slot, x |-> x, skip |-> skip, c |-> c]

\* return self.head(x1)
FwdHead(head, x1, trace) ==
    LET out == IF head.cls = "unset" THEN Raise("AttributeError") ELSE Head_forward(head, x1)
    IN  FwdResult(out.err, out.val, Append(trace, Stage("head", "head", x1, <<>>, <<>>)))

RECURSIVE FwdFrom(_, _, _, _, _)
\* the i-th statement of forward returned r (or raised): assign it and go on
FwdAssign(self, i, env, c, trace, r) ==
    IF ~IsOk(r) THEN FwdResult(r.err, <<>>, trace)
    ELSE FwdFrom(self, i + 1, [env EXCEPT ![FwdStmts[i].dst] = r.val], c, trace)

\* forward from its i-th statement on
FwdFrom(self, i, env, c, trace) ==
    IF i > Len(FwdStmts)
    THEN FwdHead(self.slots["head"], env["x1"], trace)
    ELSE FwdAssign(self, i, env, c,
                   Append(trace, Stage(FwdStmts[i].kind, FwdStmts[i].slot, env[FwdStmts[i].src],
                                       IF FwdStmts[i].kind = "skip" THEN env[FwdStmts[i].dst] ELSE <<>>,
                                       IF FwdStmts[i].kind = "stack" THEN c ELSE <<>>)),
                   CallSlot(self, FwdStmts[i], env, c))

\* forward once c and the tokenized x1 are computed
FwdBody(self, c, x1) ==
    IF ~IsOk(c) THEN FwdResult(c.err, <<>>, <<>>)
    ELSE IF ~IsOk(x1) THEN FwdResult(x1.err, <<>>, <<>>)
    ELSE FwdFrom(self, 1, [v \in {"x1", "x2", "x3", "x4"} |-> IF v = "x1" THEN x1.val ELSE <<>>],
                 c.val, <<>>)

\* ImageDiffiT.forward(x, t, y)
ImageDiffiT_forward(self, x, t, y) ==
    FwdBody(self,
            Then(TimestepEmbedder_forward(self.hidden_size, t), LAMBDA xt :
            Then(LabelEmbedder_forward(self.num_classes, self.hidden_size, y), LAMBDA xl :
            TensorAdd(xt, xl))),
            Tokenizer_forward(self.channels, self.hidden_channels, x))

----------------------------------------------------------------------------
(* Classifier-free guidance.  Here a tensor is a sequence of samples, each  *)
(* a sequence of channel values; the arithmetic is elementwise, so one      *)
(* value stands for a channel's whole plane.                                *)

\* T[:, lo-1:hi]
ChannelSlice(T, lo, hi) ==
    [r \in 1..Len(T) |-> [k \in 1..Max(0, Min(hi, Len(T[r])) - lo + 1) |-> T[r][lo + k - 1]]]

\* torch.split(T, size, dim=0): chunks of size rows, the last one possibly shorter
torch_split(T, size) ==
    IF size = 0
    THEN IF Len(T) = 0 THEN Ok(<<T>>) ELSE Raise("RuntimeError")
    ELSE Ok([j \in 1..((Len(T) + size - 1) \div size) |->
                SubSeq(T, (j - 1) * size + 1, Min(j * size, Len(T)))])

\* the interpolation with the two predictions exchanged
Interpolate_swapped(cond_eps, uncond_eps, cfg_scale) ==
    [i \in 1..Len(cond_eps) |->
        [k \in 1..Len(cond_eps[i]) |->
            cond_eps[i][k] + cfg_scale * (uncond_eps[i][k] - cond_eps[i][k])]]

\* uncond_eps + cfg_scale * (cond_eps - uncond_eps)
Interpolate(cond_eps, uncond_eps, cfg_scale) ==
    [i \in 1..Len(uncond_eps) |->
        [k \in 1..Len(uncond_eps[i]) |->
            uncond_eps[i][k] + cfg_scale * (cond_eps[i][k] - uncond_eps[i][k])]]

\* forward_with_cfg from the U-Net output on, lines 343 to 353
cfg_guidance(model_out, cfg_scale) ==
    LET eps == ChannelSlice(model_out, 1, 3)
        rest == ChannelSlice(model_out, 4, IF Len(model_out) = 0 THEN 0 ELSE Len(model_out[1]))
        parts == torch_split(eps, Len(eps) \div 2)
    IN  IF ~IsOk(parts) THEN parts
        ELSE IF Len(parts.val) # 2 THEN Raise("ValueError")
        ELSE LET cond_eps == parts.val[1]
                 uncond_eps == parts.val[2]
                 half_eps == Interpolate(cond_eps, uncond_eps, cfg_scale)
                 eps2 == half_eps \o half_eps
             IN  IF Len(eps2) # Len(rest) THEN Raise("RuntimeError")
                 ELSE Ok([r \in 1..Len(eps2) |-> eps2[r] \o rest[r]])

\* forward_with_cfg once the U-Net has run on the doubled batch
CfgFinish(model_out, combined_labels, cfg_scale) ==
    IF ~IsOk(model_out)
    THEN [err |-> model_out.err, val |-> <<>>, trace |-> model_out.trace,
          unet_calls |-> 1, labels |-> combined_labels]
    ELSE LET planes == [r \in 1..model_out.val[1] |-> [k \in 1..model_out.val[2] |-> 0]]
             guided == cfg_guidance(planes, cfg_scale)
         IN  [err |-> guided.err,
              val |-> IF IsOk(guided)
                      THEN <<Len(guided.val), Len(guided.val[1]), model_out.val[3], model_out.val[4]>>
                      ELSE <<>>,
              trace |-> model_out.trace, unet_calls |-> 1, labels |-> combined_labels]

\* ImageDiffiT.forward_with_cfg(x, t, y, cfg_scale)
ImageDiffiT_forward_with_cfg(self, x, t, y, cfg_scale) ==
    LET combined == <<2 * x[1], x[2], x[3], x[4]>>
        combined_times == <<2 * t[1]>>
        null_labels == [i \in 1..x[1] |-> self.num_classes]
        combined_labels == y \o null_labels
    IN  CfgFinish(ImageDiffiT_forward(self, combined, combined_times, combined_labels),
                  combined_labels, cfg_scale)

----------------------------------------------------------------------------
(* The state machines.  Each draws its inputs in its initial state and      *)
(* leaves the variables of the others idle.                                 *)

NoCall == [op |-> "none"]

IdleUnet == ucfg = <<>> /\ upc = "idle" /\ umodel = NoResult /\ ucall = NoCall

IdleBlock == bcfg = <<>> /\ bpc = "idle" /\ block = NoResult /\ stack = NoResult /\ bout = NoCall

IdleTr == tin = <<>> /\ tpc = "idle" /\ tdown = NoResult /\ tup = NoResult /\ tsum = NoResult

IdleCfg == gin = <<>> /\ gpc = "idle" /\ gout = NoResult

IdleUnp == pin = <<>> /\ ppc = "idle" /\ pout = NoResult

(* --- a DiffiTResBlock and a DiffiTSequential ---------------------------- *)

BlockCfgs ==
    [img_size : 1..MaxImg, num_heads : 1..MaxHeads, patch_size : 1..MaxPatch,
     hidden_size : 1..MaxHidden, channels : 1..MaxChannels, num_groups : 1..MaxGroups]

InitBlock ==
    /\ bcfg \in BlockCfgs
    /\ bpc = "start" /\ block = NoResult /\ stack = NoResult /\ bout = NoCall
    /\ IdleUnet /\ IdleTr /\ IdleCfg /\ IdleUnp

\* DiffiTResBlock(**bcfg)
NewBlock ==
    /\ bpc = "start"
    /\ block' = DiffiTResBlock_kw(bcfg)
    /\ bpc' = IF IsOk(block') THEN "built" ELSE "raised"
    /\ UNCHANGED <<bcfg, stack, bout, unetVars, trVars, cfgVars, unpVars>>

\* block(x, c) on the block built
BlockForward ==
    /\ bpc = "built"
    /\ \E B \in 1..MaxBatch, H \in 1..MaxImg :
          LET x == <<B, bcfg.channels, H, H>>
              c == <<B, bcfg.hidden_size>>
          IN  bout' = [op |-> "block", n |-> 1, x |-> x, c |-> c,
                       res |-> DiffiTResBlock_forward(block.val, x, c)]
    /\ bpc' = "called"
    /\ UNCHANGED <<bcfg, block, stack, unetVars, trVars, cfgVars, unpVars>>

\* DiffiTSequential(*blocks) with n blocks of the configuration
NewSequential ==
    /\ bpc = "built"
    /\ \E n \in 0..MaxBlocks :
          /\ stack' = DiffiTSequential_init([i \in 1..n |-> block.val])
          /\ bout' = [op |-> "new_stack", n |-> n, x |-> <<>>, c |-> <<>>, res |-> NoResult]
    /\ bpc' = "stacked"
    /\ UNCHANGED <<bcfg, block, unetVars, trVars, cfgVars, unpVars>>

\* stack(x, c) on the stack built
SequentialForward ==
    /\ bpc = "stacked"
    /\ \E B \in 1..MaxBatch, H \in 1..MaxImg :
          LET x == <<B, bcfg.channels, H, H>>
              c == <<B, bcfg.hidden_size>>
          IN  bout' = [op |-> "stack", n |-> bout.n, x |-> x, c |-> c,
                       res |-> DiffiTSequential_forward(stack.val, x, c)]
    /\ bpc' = "stack_called"
    /\ UNCHANGED <<bcfg, block, stack, unetVars, trVars, cfgVars, unpVars>>

\* DiffiTSequential.all_equals(n, **bcfg)
AllEquals ==
    /\ bpc = "start"
    /\ \E n \in 0..MaxStack :
          /\ stack' = all_equals(n, bcfg)
          /\ bout' = [op |-> "all_equals", n |-> n, x |-> <<>>, c |-> <<>>, res |-> NoResult]
    /\ bpc' = "all_equals"
    /\ UNCHANGED <<bcfg, block, unetVars, trVars, cfgVars, unpVars>>

NextBlock == NewBlock \/ BlockForward \/ NewSequential \/ SequentialForward \/ AllEquals

SpecBlock == InitBlock /\ [][NextBlock]_vars

(* --- a resolution transition -------------------------------------------- *)

InitTr ==
    /\ \E hc \in 1..MaxChannels, B \in 1..MaxBatch, H \in 1..MaxImg :
          tin = [hidden_channels |-> hc, x |-> <<B, hc, H, H>>]
    /\ tpc = "start" /\ tdown = NoResult /\ tup = NoResult /\ tsum = NoResult
    /\ IdleUnet /\ IdleBlock /\ IdleCfg /\ IdleUnp

\* x_low = downsample(x)
DownsampleStep ==
    /\ tpc = "start"
    /\ tdown' = Downsample(tin.hidden_channels, tin.x)
    /\ tpc' = "down"
    /\ UNCHANGED <<tin, tup, tsum, unetVars, blockVars, cfgVars, unpVars>>

\* x = x + upsample(x_low)
SkipAddStep ==
    /\ tpc = "down" /\ IsOk(tdown)
    /\ tup' = Upsample(tin.hidden_channels, tdown.val)
    /\ tsum' = SkipAdd(tin.hidden_channels, tin.x, tdown.val)
    /\ tpc' = "added"
    /\ UNCHANGED <<tin, tdown, unetVars, blockVars, cfgVars, unpVars>>

NextTr == DownsampleStep \/ SkipAddStep

SpecTransition == InitTr /\ [][NextTr]_vars

(* --- a guidance pass ------------------------------------------------------ *)

\* the U-Net outputs drawn: 2B samples of 3 + extra channels
ModelOuts ==
    { [r \in 1..(2 * B) |-> [k \in 1..(3 + extra) |-> rowv[r] + (MaxVal + 1) * (k - 1)]] :
        <<B, extra, rowv>> \in
            UNION { {<<b, e, rv>> : rv \in [1..(2 * b) -> 0..MaxVal]} :
                      <<b, e>> \in (1..MaxBatch) \X (0..MaxRest) } }

InitCfg ==
    /\ \E mo \in ModelOuts, w \in (-1)..MaxW : gin = [model_out |-> mo, cfg_scale |-> w]
    /\ gpc = "start" /\ gout = NoResult
    /\ IdleUnet /\ IdleBlock /\ IdleTr /\ IdleUnp

\* lines 343 to 353 on the U-Net output
Guide ==
    /\ gpc = "start"
    /\ gout' = cfg_guidance(gin.model_out, gin.cfg_scale)
    /\ gpc' = "done"
    /\ UNCHANGED <<gin, unetVars, blockVars, trVars, unpVars>>

NextCfg == Guide

SpecCfg == InitCfg /\ [][NextCfg]_vars

(* --- an unpatchify call --------------------------------------------------- *)

\* the token tensors drawn: shape (B, T, D) with D = p*p*c or one more, the
\* element at offset f holding f
TokenTensor(B, T, D) == [shape |-> <<B, T, D>>, data |-> [f \in 1..(B * T * D) |-> f - 1]]

InitUnp ==
    /\ \E B \in 1..MaxBatch, T \in 1..MaxTokens, p \in 1..MaxPatch, c \in 1..MaxChannels,
          extra \in 0..1 :
          pin = [blk |-> DiffiTResBlock_kw([img_size |-> p, num_heads |-> 1, patch_size |-> p,
                                            hidden_size |-> 1, channels |-> c,
                                            num_groups |-> 1]).val,
                 x   |-> TokenTensor(B, T, p * p * c + extra)]
    /\ ppc = "start" /\ pout = NoResult
    /\ IdleUnet /\ IdleBlock /\ IdleTr /\ IdleCfg

\* blk.unpatchify(x)
Unpatchify ==
    /\ ppc = "start"
    /\ pout' = unpatchify_tensor(pin.blk, pin.x)
    /\ ppc' = "done"
    /\ UNCHANGED <<pin, unetVars, blockVars, trVars, cfgVars>>

NextUnp == Unpatchify

SpecUnp == InitUnp /\ [][NextUnp]_vars

(* --- a U-Net: construct it, then call it --------------------------------- *)

UnetCfgs ==
    [img_size : {7, 8, 12, 16, 64}, l1 : {0, 1, 4}, l2 : {0, 1, 4}, l3 : {0, 1, 4}, l4 : {0, 1, 4},
     patch_size : {1, 2}, num_classes : {NumClasses}, hidden_size : {8, 1152}, channels : {3, 4},
     hidden_channels : {8, 128}, num_heads : {3, 16}, num_groups : {3, 8},
     batch : 1..MaxBatch]

Labels(B) == [1..B -> 0..(NumClasses - 1)]

Init ==
    /\ ucfg \in UnetCfgs
    /\ upc = "start" /\ umodel = NoResult /\ ucall = NoCall
    /\ IdleBlock /\ IdleTr /\ IdleCfg /\ IdleUnp

\* what a call leaves when the construction before it raised
NotRun(err) == [err |-> err, val |-> <<>>, trace |-> <<>>, unet_calls |-> 0, labels |-> <<>>]

\* ImageDiffiT(**ucfg)
Construct ==
    /\ upc = "start"
    /\ umodel' = ImageDiffiT_init(ucfg)
    /\ ucall' = [op |-> "construct", x |-> <<>>, y |-> <<>>, cfg_scale |-> 0,
                 res |-> NotRun(umodel'.err)]
    /\ upc' = "done"
    /\ UNCHANGED <<ucfg, blockVars, trVars, cfgVars, unpVars>>

\* diffit = ImageDiffiT(**ucfg); diffit(x, t, y)
RunForward ==
    /\ upc = "start"
    /\ \E y \in Labels(ucfg.batch) :
          LET x == <<ucfg.batch, ucfg.channels, ucfg.img_size, ucfg.img_size>>
              t == <<ucfg.batch>>
          IN  /\ umodel' = ImageDiffiT_init(ucfg)
              /\ ucall' = [op |-> "forward", x |-> x, y |-> y, cfg_scale |-> 0,
                           res |-> IF IsOk(umodel')
                                   THEN ImageDiffiT_forward(umodel'.val, x, t, y)
                                           @@ [unet_calls |-> 1, labels |-> y]
                                   ELSE NotRun(umodel'.err)]
    /\ upc' = "done"
    /\ UNCHANGED <<ucfg, blockVars, trVars, cfgVars, unpVars>>

\* diffit = ImageDiffiT(**ucfg); diffit.forward_with_cfg(x, t, y, cfg_scale)
RunForwardWithCfg ==
    /\ upc = "start"
    /\ \E y \in Labels(ucfg.batch), w \in 0..MaxW :
          LET x == <<ucfg.batch, ucfg.channels, ucfg.img_size, ucfg.img_size>>
              t == <<ucfg.batch>>
          IN  /\ umodel' = ImageDiffiT_init(ucfg)
              /\ ucall' = [op |-> "forward_with_cfg", x |-> x, y |-> y, cfg_scale |-> w,
                           res |-> IF IsOk(umodel')
                                   THEN ImageDiffiT_forward_with_cfg(umodel'.val, x, t, y, w)
                                   ELSE NotRun(umodel'.err)]
    /\ upc' = "done"
    /\ UNCHANGED <<ucfg, blockVars, trVars, cfgVars, unpVars>>

Next == Construct \/ RunForward \/ RunForwardWithCfg

Spec == Init /\ [][Next]_vars

----------------------------------------------------------------------------
(* Properties of the U-Net (specification Spec)                             *)

\* the divisibility conditions __init__ asserts
ValidDiv(cfg) ==
    cfg.hidden_size % cfg.num_heads = 0 /\ cfg.hidden_channels % cfg.num_groups = 0

\* a configuration every level of which divides evenly: sizes S, S/2, S/4, S/8 in patches
EvenLevels(cfg) ==
    cfg.img_size % 8 = 0 /\ (cfg.img_size \div 8) % cfg.patch_size = 0

\* What the construction does for every configuration drawn: it raises, from the
\* assertions of lines 218-219 or from all_equals at line 234.
ConstructionRaises ==
    upc = "done" =>
        umodel.err = (IF ValidDiv(ucfg) THEN "TypeError" ELSE "AssertionError")

\* C1: for an image size S divisible by 8 and a configuration that passes the
\* divisibility checks, forward(x, t, y) with x of shape (B, channels, S, S)
\* completes and returns a tensor of shape (B, channels, S, S).
C1_ForwardReturnsInputShape ==
    (upc = "done" /\ ucall.op = "forward" /\ ValidDiv(ucfg) /\ EvenLevels(ucfg)) =>
        /\ IsOk(ucall.res)
        /\ ucall.res.val = <<ucfg.batch, ucfg.channels, ucfg.img_size, ucfg.img_size>>

\* the order of stages the forward pass is to run, with the spatial size each one is given
ExpectedStages(S) ==
    << <<"stack", S>>, <<"down", S>>, <<"stack", S \div 2>>, <<"down", S \div 2>>,
       <<"stack", S \div 4>>, <<"down", S \div 4>>, <<"stack", S \div 8>>,
       <<"skip", S \div 8>>, <<"stack", S \div 4>>, <<"skip", S \div 4>>,
       <<"stack", S \div 2>>, <<"skip", S \div 2>>, <<"stack", S>>, <<"head", S>> >>

\* C2: the forward pass runs level1 stack, downsample, level2 stack, downsample,
\* level3 stack, downsample, level4 stack, then upsample + skip + decoder stack for
\* levels 3, 2, 1, then Head; every attribute forward reads was assigned by the
\* construction, no attribute is assigned twice, and every stack is applied only to
\* the resolution it was built for.
C2_ForwardWiring ==
    (upc = "done" /\ ucall.op = "forward" /\ ValidDiv(ucfg) /\ EvenLevels(ucfg)) =>
        /\ IsOk(umodel)
        /\ \A i \in 1..Len(FwdStmts) : umodel.val.slots[FwdStmts[i].slot] # Unset
        /\ \A i, j \in 1..Len(CtorStmts(ucfg)) :
              i # j => CtorStmts(ucfg)[i].slot # CtorStmts(ucfg)[j].slot
        /\ [i \in 1..Len(ucall.res.trace) |-> <<ucall.res.trace[i].kind, ucall.res.trace[i].x[3]>>]
              = ExpectedStages(ucfg.img_size)
        /\ \A i \in 1..Len(ucall.res.trace) :
              ucall.res.trace[i].kind = "stack" =>
                  LET st == umodel.val.slots[ucall.res.trace[i].slot]
                  IN  /\ st.cls = "DiffiTSequential"
                      /\ \A b \in 1..Len(st.blocks) : st.blocks[b].img_size = ucall.res.trace[i].x[3]

\* C3: forward_with_cfg(x, t, y, w) with x of shape (B, C, S, S), B >= 1, runs the
\* U-Net exactly once, on labels y followed by B null labels (index num_classes),
\* and returns a tensor of batch size 2B: (2B, 3, S, S) for x of shape (B, 3, S, S).
C3_GuidanceCall ==
    (upc = "done" /\ ucall.op = "forward_with_cfg" /\ ValidDiv(ucfg) /\ EvenLevels(ucfg)) =>
        /\ IsOk(ucall.res)
        /\ ucall.res.unet_calls = 1
        /\ ucall.res.labels = ucall.y \o [i \in 1..ucfg.batch |-> ucfg.num_classes]
        /\ ucall.res.val[1] = 2 * ucfg.batch
        /\ (ucfg.channels = 3 =>
               ucall.res.val = <<2 * ucfg.batch, 3, ucfg.img_size, ucfg.img_size>>)

\* C5: constructing an ImageDiffiT raises the configuration error of its assertions
\* whenever hidden_size % num_heads # 0 or hidden_channels % num_groups # 0, and
\* succeeds when both divisibility conditions hold.
C5_ConfigValidation ==
    upc = "done" =>
        /\ (~ValidDiv(ucfg) => umodel.err = "AssertionError")
        /\ (ValidDiv(ucfg) => IsOk(umodel))

\* the exceptions a shape mismatch raises: torch's RuntimeError (an add or a
\* convolution on mismatched shapes) and the AssertionError of a size assertion
ShapeErrors == {"RuntimeError", "AssertionError"}

\* C7: a U-Net whose img_size is not divisible by 8 fails with a shape-mismatch error
\* in construction or in its first forward call; for img_size divisible by 8 every
\* skip tensor has the shape of the upsampled tensor it is added to.
C7_SkipShapes ==
    (upc = "done" /\ ucall.op = "forward" /\ ValidDiv(ucfg)) =>
        /\ (ucfg.img_size % 8 # 0 => ucall.res.err \in ShapeErrors)
        /\ (EvenLevels(ucfg) =>
               LET skips == {i \in 1..Len(ucall.res.trace) : ucall.res.trace[i].kind = "skip"}
               IN  /\ Cardinality(skips) = 3
                   /\ \A i \in skips :
                         Upsample(ucfg.hidden_channels, ucall.res.trace[i].x).val
                            = ucall.res.trace[i].skip)

----------------------------------------------------------------------------
(* Properties of the block and the stack (specification SpecBlock)          *)

\* What DiffiTResBlock.__init__ does: it raises AssertionError exactly when a
\* divisibility condition fails, and otherwise yields a block.
BlockConfigValidation ==
    bpc \in {"built", "raised"} =>
        IF bcfg.hidden_size % bcfg.num_heads # 0 \/ bcfg.channels % bcfg.num_groups # 0
        THEN bpc = "raised" /\ block.err = "AssertionError"
        ELSE bpc = "built" /\ IsOk(block)

\* C6: for a block built from a valid configuration with img_size divisible by
\* patch_size, forward(x, c) with x of shape (B, channels, img_size, img_size) and c of
\* shape (B, hidden_size) returns a tensor of the shape of x.
C6_BlockPreservesShape ==
    (bpc = "called" /\ bout.x[3] = bcfg.img_size /\ bcfg.img_size % bcfg.patch_size = 0) =>
        /\ IsOk(bout.res)
        /\ bout.res.val = bout.x

\* a block of patch size 2 on a 4x4 map of 2 channels, batch 2, returned its result
C6_Witness ==
    /\ bpc = "called"
    /\ bcfg.img_size = 4 /\ bcfg.patch_size = 2 /\ bcfg.channels = 2
    /\ bout.x = <<2, 2, 4, 4>> /\ bout.c = <<2, bcfg.hidden_size>>
    /\ IsOk(bout.res)

\* C8: all_equals(n, **cfg) yields a stack of exactly n blocks, each built with cfg.
C8_AllEqualsBuildsStack ==
    (bpc = "all_equals" /\ IsOk(DiffiTResBlock_kw(bcfg))) =>
        /\ IsOk(stack)
        /\ stack.val.cls = "DiffiTSequential"
        /\ Len(stack.val.blocks) = bout.n
        /\ \A i \in 1..bout.n : stack.val.blocks[i] = DiffiTResBlock_kw(bcfg).val

\* What a stack built by DiffiTSequential(*blocks) does: it applies its n blocks in
\* order, so on an input its blocks accept it returns the shape of the input.
DirectStackForward ==
    (bpc = "stack_called" /\ bout.x[3] = bcfg.img_size /\ bcfg.img_size % bcfg.patch_size = 0) =>
        /\ IsOk(bout.res)
        /\ bout.res.val = bout.x

----------------------------------------------------------------------------
(* Properties of the resolution transitions (specification SpecTransition)  *)

\* what the claim and its amendment share: both transitions keep batch and channels,
\* an even H is halved, h is doubled, and the round trip restores exactly the even H
TransitionSizes ==
    LET H == tin.x[3]
    IN  /\ tpc \in {"down", "added"} =>
              /\ IsOk(tdown)
              /\ tdown.val[1] = tin.x[1] /\ tdown.val[2] = tin.x[2]
              /\ (H % 2 = 0 => tdown.val[3] = H \div 2 /\ tdown.val[4] = H \div 2)
        /\ tpc = "added" =>
              /\ IsOk(tup)
              /\ tup.val[1] = tin.x[1] /\ tup.val[2] = tin.x[2]
              /\ tup.val[3] = 2 * tdown.val[3] /\ tup.val[4] = 2 * tdown.val[4]
              /\ (H % 2 = 0 => tup.val = tin.x /\ tsum = Ok(tin.x))
              /\ (H % 2 = 1 => tup.val[3] # H)

----------------------------------------------------------------------------
(* Properties of the guidance arithmetic (specification SpecCfg)            *)

\* C4: with cond_eps the first half and uncond_eps the second half of the U-Net
\* output, the first 3 channels of output rows i and i+B both equal
\* uncond_eps[i] + w * (cond_eps[i] - uncond_eps[i]); channels beyond the first 3 are
\* returned as the U-Net produced them; with w = 1 the first 3 channels of row i are
\* the conditional prediction, with w = 0 the unconditional one.
C4_GuidanceFormula ==
    gpc = "done" =>
        LET mo == gin.model_out
            w == gin.cfg_scale
            B == Len(mo) \div 2
        IN  /\ IsOk(gout)
            /\ Len(gout.val) = 2 * B
            /\ \A i \in 1..B :
                  /\ Len(gout.val[i]) = Len(mo[i]) /\ Len(gout.val[i + B]) = Len(mo[i + B])
                  /\ \A k \in 1..Len(mo[i]) :
                        IF k <= 3
                        THEN /\ gout.val[i][k] = mo[i + B][k] + w * (mo[i][k] - mo[i + B][k])
                             /\ gout.val[i + B][k] = mo[i + B][k] + w * (mo[i][k] - mo[i + B][k])
                             /\ (w = 1 => gout.val[i][k] = mo[i][k])
                             /\ (w = 0 => gout.val[i][k] = mo[i + B][k])
                        ELSE /\ gout.val[i][k] = mo[i][k]
                             /\ gout.val[i + B][k] = mo[i + B][k]

\* a guided batch of 2 samples with a fourth channel, w = 2, whose conditional and
\* unconditional predictions differ
C4_Witness ==
    /\ gpc = "done" /\ IsOk(gout)
    /\ Len(gin.model_out) = 4 /\ Len(gin.model_out[1]) = 4
    /\ gin.cfg_scale = 2
    /\ gin.model_out[1][1] # gin.model_out[3][1]
    /\ gin.model_out[2][1] # gin.model_out[4][1]
    /\ gout.val[1][1] = 2 * gin.model_out[1][1] - gin.model_out[3][1]
    /\ gout.val[3][4] = gin.model_out[3][4]

----------------------------------------------------------------------------
(* unpatchify                                                               *)

\* the shape of the result of unpatchify on values is the result of unpatchify
\* on shapes, and the two raise alike
UnpatchifyShapeAgrees ==
    ppc = "done" =>
        LET r == unpatchify(pin.blk, pin.x.shape)
        IN  /\ pout.err = r.err
            /\ IsOk(pout) => pout.val.shape = r.val

====
